---- MODULE Spec2Model ----
(***************************************************************************)
(* Model of packetizer.py: Dependency._requires, Packetizer._parse_deps_   *)
(* tree, Packetizer._patch_spec_data and Packetizer.packetize.             *)
(*                                                                         *)
(* A Python str is a sequence of one-character strings, so that splitting, *)
(* regular-expression matching, concatenation and ordering are computed.  *)
(* The characters are those of pip version specifiers and package names.   *)
(***************************************************************************)
EXTENDS Integers, Sequences, FiniteSets, TLC

VARIABLES
    req,    \* one call of Dependency._requires
    tree,   \* one call of Packetizer._parse_deps_tree
    patch,  \* one call of Packetizer._patch_spec_data
    run     \* one call of Packetizer.packetize

vars == <<req, tree, patch, run>>

None == "None"

(* ---------------------------------------------------------------------- *)
(* Python strings and their ordering                                       *)
(* ---------------------------------------------------------------------- *)

\* ord() of the characters the model uses.
Ord == [c \in {"!", ",", "1", "2", "<", "=", ">", "A", "B", "a", "b", "c", "t"} |->
          CASE c = "!" -> 33 [] c = "," -> 44 [] c = "1" -> 49 [] c = "2" -> 50
            [] c = "<" -> 60 [] c = "=" -> 61 [] c = ">" -> 62
            [] c = "A" -> 65 [] c = "B" -> 66
            [] c = "a" -> 97 [] c = "b" -> 98 [] c = "c" -> 99 [] c = "t" -> 116]

\* str.__lt__: lexicographic by code point, a proper prefix is smaller.
RECURSIVE StrLess(_, _)
StrLess(a, b) ==
    IF b = <<>> THEN FALSE
    ELSE IF a = <<>> THEN TRUE
    ELSE IF Ord[Head(a)] # Ord[Head(b)] THEN Ord[Head(a)] < Ord[Head(b)]
    ELSE StrLess(Tail(a), Tail(b))

\* tuple.__lt__ on a pair of strings.
PairLess(p, q) ==
    IF p[1] # q[1] THEN StrLess(p[1], q[1]) ELSE StrLess(p[2], q[2])

\* tuple.__lt__ on tuples of pairs of strings.
RECURSIVE PairsLess(_, _)
PairsLess(a, b) ==
    IF b = <<>> THEN FALSE
    ELSE IF a = <<>> THEN TRUE
    ELSE IF Head(a) # Head(b) THEN PairLess(Head(a), Head(b))
    ELSE PairsLess(Tail(a), Tail(b))

(* ---------------------------------------------------------------------- *)
(* Dependency._requires                                                    *)
(* ---------------------------------------------------------------------- *)

\* The character class [<>!=] of the regular expression.
OpChars == {"<", ">", "!", "="}

\* str.split(','): the pieces between the commas, empty pieces included.
RECURSIVE Split(_)
Split(s) ==
    IF \A i \in 1..Len(s) : s[i] # ","
    THEN <<s>>
    ELSE LET i == CHOOSE k \in 1..Len(s) :
                    s[k] = "," /\ \A j \in 1..(k - 1) : s[j] # ","
         IN <<SubSeq(s, 1, i - 1)>> \o Split(SubSeq(s, i + 1, Len(s)))

\* re.search(r'^([<>!=]*)(.*)$', part).groups(): the greedy first group takes the
\* longest leading run of operator characters, the second group the rest.
Search(part) ==
    LET n == CHOOSE k \in 0..Len(part) :
                 /\ \A j \in 1..k : part[j] \in OpChars
                 /\ (k < Len(part) => part[k + 1] \notin OpChars)
    IN <<SubSeq(part, 1, n), SubSeq(part, n + 1, Len(part))>>

\* Faulty variant: every operator that starts with '!' counts as a conflict.
IsRequireStartsWithBang(part_op) == ~(Len(part_op) >= 1 /\ part_op[1] = "!")

\* The test `part_op != '!='` that sends a part to requires.
IsRequire(part_op) == part_op # <<"!", "=">>

\* The for loop of _requires over the comma parts.
RECURSIVE RequiresLoop(_, _, _)
RequiresLoop(parts, requires, conflicts) ==
    IF parts = <<>> THEN <<requires, conflicts>>
    ELSE LET g == Search(Head(parts)) IN
         IF IsRequire(g[1])
         THEN RequiresLoop(Tail(parts), Append(requires, g), conflicts)
         ELSE RequiresLoop(Tail(parts), requires, Append(conflicts, g))

\* Dependency._requires(requirement) -> (requires, conflicts).
Requires(requirement) ==
    IF requirement = <<>>
    THEN <<<<>>, <<>>>>
    ELSE RequiresLoop(Split(requirement), <<>>, <<>>)

(* ---------------------------------------------------------------------- *)
(* Specification SpecReq: _requires applied to every bounded string        *)
(* ---------------------------------------------------------------------- *)

\* Longest requirement string tried.
MaxLen == 6

ReqAlphabet == {"<", "!", "=", ",", "1"}

\* The strings over `alphabet` of length at most n.
StringsUpTo(alphabet, n) == UNION {[1..k -> alphabet] : k \in 0..n}

\* The value of a variable in the specifications where its call is not made.
Idle == [pc |-> "idle"]

InitReq ==
    /\ tree = Idle /\ patch = Idle /\ run = Idle
    /\ \E k \in 0..MaxLen : \E s \in [1..k -> ReqAlphabet] :
           req = [requirement |-> s, result |-> None, pc |-> "call"]

CallRequires ==
    /\ req.pc = "call"
    /\ req' = [req EXCEPT !.result = Requires(req.requirement), !.pc = "done"]
    /\ UNCHANGED <<tree, patch, run>>

NextReq == CallRequires

SpecReq == InitReq /\ [][NextReq]_vars

(* ---------------------------------------------------------------------- *)
(* Dependency, Dependency.parse and the order of Dependency records       *)
(* ---------------------------------------------------------------------- *)

\* Dependency.parse(dep): the record built from one raw dependency entry.
Parse(dep) ==
    LET rc == Requires(dep.required_version)
    IN [package |-> dep.package_name, installed |-> dep.installed_version,
        requires |-> rc[1], conflicts |-> rc[2]]

\* Dependency.__lt__ (dataclass order=True): the order of the field tuples
\* (package, installed, requires, conflicts).
DepLess(d, e) ==
    IF d.package # e.package THEN StrLess(d.package, e.package)
    ELSE IF d.installed # e.installed THEN StrLess(d.installed, e.installed)
    ELSE IF d.requires # e.requires THEN PairsLess(d.requires, e.requires)
    ELSE PairsLess(d.conflicts, e.conflicts)

\* sorted(S) for a set S of Dependency records.
RECURSIVE SortDeps(_)
SortDeps(S) ==
    IF S = {} THEN <<>>
    ELSE LET m == CHOOSE x \in S : \A y \in S \ {x} : DepLess(x, y)
         IN <<m>> \o SortDeps(S \ {m})

Range(f) == {f[i] : i \in DOMAIN f}

\* sorted({Dependency.parse(dep) for dep in raw}).
SortedParsed(raw) == SortDeps({Parse(dep) : dep \in Range(raw)})

(* ---------------------------------------------------------------------- *)
(* Packetizer._parse_deps_tree                                             *)
(* ---------------------------------------------------------------------- *)

\* The dependencies of every report entry named `name`, in report order.
RECURSIVE ListedUnder(_, _)
ListedUnder(deps, name) ==
    IF deps = <<>> THEN <<>>
    ELSE (IF Head(deps).package.package_name = name
          THEN Head(deps).dependencies ELSE <<>>)
         \o ListedUnder(Tail(deps), name)

\* The first loop: the raw own dependencies of the package.
OwnDepsRaw(deps, name) == ListedUnder(deps, name)

RemoveAt(q, i) == SubSeq(q, 1, i - 1) \o SubSeq(q, i + 1, Len(q))

\* Faulty variants of the while body: nothing enqueued; the listed dependencies
\* recorded in place of the removed item; an item already recorded not expanded.
WalkBodyNoExtend(deps, all_deps, queue, i) ==
    [all_deps |-> Append(all_deps, queue[i]), queue |-> RemoveAt(queue, i)]

WalkBodyRecordsListed(deps, all_deps, queue, i) ==
    [all_deps |-> all_deps \o ListedUnder(deps, queue[i].package_name),
     queue |-> RemoveAt(queue, i) \o ListedUnder(deps, queue[i].package_name)]

WalkBodySkipRecorded(deps, all_deps, queue, i) ==
    [all_deps |-> Append(all_deps, queue[i]),
     queue |-> RemoveAt(queue, i) \o
               (IF queue[i] \in Range(all_deps) THEN <<>>
                ELSE ListedUnder(deps, queue[i].package_name))]

\* One run of the while body, removing the queue item at position i (the code
\* removes the last one): record it, then enqueue what is listed under its name.
WalkBody(deps, all_deps, queue, i) ==
    [all_deps |-> Append(all_deps, queue[i]),
     queue |-> RemoveAt(queue, i) \o ListedUnder(deps, queue[i].package_name)]

\* The position queue.pop(-1) removes.
PopIndex(queue) == Len(queue)

\* The while loop run to its end (defined when it ends).
RECURSIVE Walk(_, _, _)
Walk(deps, all_deps, queue) ==
    IF queue = <<>> THEN all_deps
    ELSE LET b == WalkBody(deps, all_deps, queue, PopIndex(queue))
         IN Walk(deps, b.all_deps, b.queue)

(* ---------------------------------------------------------------------- *)
(* The dependency graph of a report                                        *)
(* ---------------------------------------------------------------------- *)

EntryNamesOf(deps) == {deps[i].package.package_name : i \in DOMAIN deps}

DepNamesOf(deps) ==
    UNION {{deps[i].dependencies[j].package_name : j \in DOMAIN deps[i].dependencies}
           : i \in DOMAIN deps}

\* n -> m when a report entry named n lists a dependency named m.
Edge(deps, n, m) ==
    \E i \in DOMAIN deps :
        /\ deps[i].package.package_name = n
        /\ \E j \in DOMAIN deps[i].dependencies :
               deps[i].dependencies[j].package_name = m

Succ(deps, N) == {m \in DepNamesOf(deps) : \E n \in N : Edge(deps, n, m)}

\* The names reachable from the names N in one or more steps.
RECURSIVE ReachFrom(_, _, _)
ReachFrom(deps, frontier, seen) ==
    LET new == Succ(deps, frontier) \ seen
    IN IF new = {} THEN seen ELSE ReachFrom(deps, new, seen \cup new)

ReachablePlus(deps, N) == ReachFrom(deps, N, {})

\* A dependency cycle (a self-dependency included) can be reached from the
\* direct dependencies of `name`.
CycleReachable(deps, name) ==
    LET direct == Succ(deps, {name})
        nodes == direct \cup ReachablePlus(deps, direct)
    IN \E x \in nodes : x \in ReachablePlus(deps, {x})

(* ---------------------------------------------------------------------- *)
(* Specification SpecTree: _parse_deps_tree on bounded reports             *)
(* ---------------------------------------------------------------------- *)

\* Most dependency entries listed in one report, all its entries together.
MaxListed == 4

\* The while loop is unbounded on a cyclic report: the model stops it after this
\* many rounds, which no acyclic report of the family needs (with x entries
\* listed under the target and y under one of them, x + x * y rounds).
MaxSteps == ((MaxListed + 1) * (MaxListed + 1)) \div 4 + 1

Target == <<"t">>

Names == {<<"t">>, <<"a">>, <<"b">>}

\* The names of the entries of a report, in report order: one entry per package,
\* two entries for the target, no entry for the target.
EntryNameSeqs ==
    {<< <<"t">>, <<"a">>, <<"b">> >>,
     << <<"t">>, <<"t">>, <<"a">> >>,
     << <<"a">>, <<"b">> >>}

\* The version installed of a package.
InstalledOf(name) == IF name = <<"b">> THEN <<"2">> ELSE <<"1">>

\* The version expression with which the package `owner` requires its dependencies.
RequiredBy(owner) ==
    IF owner = <<"t">> THEN <<>>
    ELSE IF owner = <<"a">> THEN <<">", "=", "1", ",", "!", "=", "2">>
    ELSE <<"<", "2">>

RawDep(owner, name) ==
    [package_name |-> name, installed_version |-> InstalledOf(name),
     required_version |-> RequiredBy(owner)]

Entry(owner, names) ==
    [package |-> [package_name |-> owner],
     dependencies |-> [j \in DOMAIN names |-> RawDep(owner, names[j])]]

Min(x, y) == IF x <= y THEN x ELSE y

\* The report with entry names `en` whose entries list the dependency names
\* `flat`, cut into one consecutive piece per entry after the positions `cut`.
Report(en, flat, cut) ==
    LET n == Len(en) IN
    [k \in 1..n |->
        Entry(en[k],
              SubSeq(flat,
                     (IF k = 1 THEN 1 ELSE Min(cut[k - 1], Len(flat)) + 1),
                     (IF k = n THEN Len(flat) ELSE Min(cut[k], Len(flat)))))]

Cuts(n) ==
    {c \in [1..(n - 1) -> 0..MaxListed] : \A k \in 1..(n - 2) : c[k] <= c[k + 1]}

\* tree.order: "lifo" is the code (queue.pop(-1)); "any" removes any queue item,
\* for the statement that the order of removal does not change the result.
InitTreeOrders(orders) ==
    /\ req = Idle /\ patch = Idle /\ run = Idle
    /\ \E en \in EntryNameSeqs, order \in orders :
       \E k \in 0..MaxListed : \E flat \in [1..k -> Names] : \E cut \in Cuts(Len(en)) :
         /\ tree = [deps |-> Report(en, flat, cut), package |-> Target,
                    order |-> order, own_raw |-> <<>>, all_raw |-> <<>>,
                    queue |-> <<>>, own_deps |-> None, all_deps |-> None,
                    pc |-> "own"]
         /\ order = "any" => ~CycleReachable(tree.deps, tree.package)

InitTree == InitTreeOrders({"lifo", "any"})

\* The code's walk alone.
InitTreeLifo == InitTreeOrders({"lifo"})

\* Lines 161-168: collect the own dependencies and seed the queue with a copy.
SeedQueue ==
    /\ tree.pc = "own"
    /\ LET own == OwnDepsRaw(tree.deps, tree.package)
       IN tree' = [tree EXCEPT !.own_raw = own, !.queue = own, !.pc = "walk"]
    /\ UNCHANGED <<req, patch, run>>

\* Lines 169-175: one round of the while loop.
WalkRound ==
    /\ tree.pc = "walk"
    /\ tree.queue # <<>>
    /\ Len(tree.all_raw) < MaxSteps
    /\ \E i \in (IF tree.order = "lifo" THEN {PopIndex(tree.queue)}
                 ELSE 1..Len(tree.queue)) :
         LET b == WalkBody(tree.deps, tree.all_raw, tree.queue, i)
         IN tree' = [tree EXCEPT !.all_raw = b.all_deps, !.queue = b.queue]
    /\ UNCHANGED <<req, patch, run>>

\* Lines 177-179: the loop has ended; sort and deduplicate both results.
AssignDeps ==
    /\ tree.pc = "walk"
    /\ tree.queue = <<>>
    /\ tree' = [tree EXCEPT !.own_deps = SortedParsed(tree.own_raw),
                            !.all_deps = SortedParsed(tree.all_raw),
                            !.pc = "done"]
    /\ UNCHANGED <<req, patch, run>>

NextTree == SeedQueue \/ WalkRound \/ AssignDeps

SpecTree == InitTree /\ [][NextTree]_vars

\* The code's walk, which goes on while a round of the loop is possible.
SpecTreeFair == InitTreeLifo /\ [][NextTree]_vars /\ WF_vars(NextTree)

(* ---------------------------------------------------------------------- *)
(* Packetizer._patch_spec_data                                             *)
(*                                                                         *)
(* A line of text is the sequence of its pieces: the literal pieces of a   *)
(* format string and the values put between them. A line of the generated  *)
(* descriptor contains a trigger when the trigger is one of its pieces.    *)
(* ---------------------------------------------------------------------- *)

\* `trigger in line`.
Contains(line, trigger) == \E k \in DOMAIN line : line[k] = trigger

\* os.path.basename(path): what follows the last '/'.
Basename(path) ==
    LET slashes == {k \in DOMAIN path : path[k] = "/"}
        last == IF slashes = {} THEN 0
                ELSE CHOOSE k \in slashes : \A j \in slashes : j <= k
    IN SubSeq(path, last + 1, Len(path))

\* Faulty variant: the name recorded in the Dependency, not the one looked up.
FullNameRecorded(prefix, show, dependency) == prefix \o dependency.package

\* fullname = '%s%s' % (self.prefix, deppackage.package), deppackage.package
\* being the name the metadata lookup has just reported for dependency.package.
FullName(prefix, show, dependency) == prefix \o show[dependency.package]

ConflictsLine(fullname, conflict) ==
    <<"Conflicts: ", fullname, " == ", conflict[2], "\n">>

RequiresLine(fullname, require) ==
    <<"Requires: ", fullname, " ", require[1], " ", require[2], "\n">>

\* Lines 208-214: the declarations of one dependency.
DependencyLines(fullname, dependency) ==
    IF dependency.requires = <<>> /\ dependency.conflicts = <<>>
    THEN << <<"Requires: ", fullname, "\n">> >>
    ELSE [k \in DOMAIN dependency.requires |->
             RequiresLine(fullname, dependency.requires[k])]
         \o [k \in DOMAIN dependency.conflicts |->
                ConflictsLine(fullname, dependency.conflicts[k])]

\* Lines 202-214: the loop over package.own_deps.
RECURSIVE OwnDepsLines(_, _, _)
OwnDepsLines(prefix, show, own_deps) ==
    IF own_deps = <<>> THEN <<>>
    ELSE DependencyLines(FullName(prefix, show, Head(own_deps)), Head(own_deps))
         \o OwnDepsLines(prefix, show, Tail(own_deps))

\* Faulty variant: the description rule tried before the name rule.
PatchLineDescriptionFirst(self, show, package, line) ==
    IF Contains(line, "%description")
    THEN Append(OwnDepsLines(self.prefix, show, package.own_deps), line)
    ELSE IF Contains(line, "%define name")
    THEN << <<"%define name ", self.prefix \o package.package, "\n">> >>
    ELSE IF Contains(line, "%setup")
    THEN << <<"%setup -n %{original_name}-%{unmangled_version}">> >>
    ELSE IF Contains(line, "Source0:")
    THEN << <<"Source0: ", Basename(package.archive), "\n">> >>
    ELSE <<line>>

\* Lines 196-228: what one input line contributes to the result.
PatchLine(self, show, package, line) ==
    IF Contains(line, "%define name")
    THEN << <<"%define name ", self.prefix \o package.package, "\n">> >>
    ELSE IF Contains(line, "%description")
    THEN Append(OwnDepsLines(self.prefix, show, package.own_deps), line)
    ELSE IF Contains(line, "%setup")
    THEN << <<"%setup -n %{original_name}-%{unmangled_version}">> >>
    ELSE IF Contains(line, "Source0:")
    THEN << <<"Source0: ", Basename(package.archive), "\n">> >>
    ELSE <<line>>

RECURSIVE PatchLines(_, _, _, _)
PatchLines(self, show, package, lines) ==
    IF lines = <<>> THEN <<>>
    ELSE PatchLine(self, show, package, Head(lines))
         \o PatchLines(self, show, package, Tail(lines))

\* _patch_spec_data(package, lines); `show` is the name `pip show` reports for
\* each name asked (the metadata lookups of the description rule).
PatchSpecData(self, show, package, lines) ==
    << <<"%define __python ", self.system_python, "\n">>,
       <<"%define original_name ", package.package, "\n">> >>
    \o PatchLines(self, show, package, lines)

(* ---------------------------------------------------------------------- *)
(* Specification SpecPatch: _patch_spec_data on bounded descriptors        *)
(* ---------------------------------------------------------------------- *)

\* Most lines of a generated descriptor.
MaxLines == 3

\* Lines of a generated descriptor: plain text, one trigger, several triggers.
DescriptorLines ==
    {<<"Summary: x", "\n">>,
     <<"%define name", " x", "\n">>,
     <<"%description", "\n">>,
     <<"%setup", " -n x", "\n">>,
     <<"Source0:", " x.tar.gz", "\n">>,
     <<"%description", " of ", "%define name">>,
     <<"Source0:", " ", "%setup">>,
     <<"# ", "Source0:", " in ", "%description", "\n">>}

\* The Dependency records own_deps is drawn from: no constraint, requires and
\* a conflict, a conflict alone, a version without operator.
DepPool ==
    {Parse([package_name |-> <<"a">>, installed_version |-> <<"1">>,
            required_version |-> <<>>]),
     Parse([package_name |-> <<"B">>, installed_version |-> <<"2">>,
            required_version |-> <<">", "=", "1", ",", "!", "=", "2", ",", "<", "2">>]),
     Parse([package_name |-> <<"b">>, installed_version |-> <<"2">>,
            required_version |-> <<"!", "=", "1">>]),
     Parse([package_name |-> <<"a">>, installed_version |-> <<"1">>,
            required_version |-> <<"1">>])}

PackageNames == {<<"t">>, <<"a">>, <<"b">>, <<"A">>, <<"B">>}

\* `pip show` reporting every name as asked, and reporting 'b' for 'B' and 'A' for 'a'.
ShowAsAsked == [n \in PackageNames |-> n]

ShowCanonical ==
    [n \in PackageNames |->
        IF n = <<"B">> THEN <<"b">> ELSE IF n = <<"a">> THEN <<"A">> ELSE n]

Prefixes == {<<>>, <<"p", "-">>}

Archives == {<<"/", "s", "/", "f", ".", "z">>, <<"f", ".", "z">>}

SystemPython == <<"/", "p", "y">>

InitPatch ==
    /\ req = Idle /\ tree = Idle /\ run = Idle
    /\ \E prefix \in Prefixes, archive \in Archives,
          show \in {ShowAsAsked, ShowCanonical}, own \in SUBSET DepPool :
       \E n \in 0..MaxLines : \E lines \in [1..n -> DescriptorLines] :
          patch = [self |-> [prefix |-> prefix, system_python |-> SystemPython],
                   show |-> show,
                   package |-> [package |-> <<"t">>, archive |-> archive,
                                own_deps |-> SortDeps(own)],
                   lines |-> lines, result |-> None, pc |-> "call"]

CallPatchSpecData ==
    /\ patch.pc = "call"
    /\ patch' = [patch EXCEPT
                   !.result = PatchSpecData(patch.self, patch.show,
                                            patch.package, patch.lines),
                   !.pc = "done"]
    /\ UNCHANGED <<req, tree, run>>

NextPatch == CallPatchSpecData

SpecPatch == InitPatch /\ [][NextPatch]_vars

(* ---------------------------------------------------------------------- *)
(* Packetizer.packetize and the stages it calls                            *)
(* ---------------------------------------------------------------------- *)

\* _parse_deps_tree run to its end for the package named `name`.
ParseDepsTree(deps, name) ==
    LET own == OwnDepsRaw(deps, name)
    IN [own_deps |-> SortedParsed(own),
        all_deps |-> SortedParsed(Walk(deps, <<>>, own))]

\* Package(package=..., version=...).
NewPackage(name, version) ==
    [package |-> name, version |-> version, archive |-> <<>>, sources |-> <<>>,
     own_deps |-> None, all_deps |-> None]

\* str.lower() of one character, for re.IGNORECASE.
Lower(c) == IF c = "A" THEN "a" ELSE IF c = "B" THEN "b" ELSE c

LowerStr(str) == [k \in DOMAIN str |-> Lower(str[k])]

\* re.search(pattern, name) for a pattern without metacharacters: the pattern
\* occurs in the name.
SearchLiteral(pattern, name) ==
    \E k \in 0..(Len(name) - Len(pattern)) :
        SubSeq(name, k + 1, k + Len(pattern)) = pattern

\* Faulty variant: the search without re.IGNORECASE.
ExcludedCaseSensitive(exclude, depname) ==
    exclude # <<>> /\ SearchLiteral(exclude, depname)

\* Line 141: exclude and re.search(exclude, depname, re.IGNORECASE).
Excluded(exclude, depname) ==
    exclude # <<>> /\ SearchLiteral(LowerStr(exclude), LowerStr(depname))

\* sorted(S) for a set S of pairs of strings.
RECURSIVE SortPairs(_)
SortPairs(S) ==
    IF S = {} THEN <<>>
    ELSE LET m == CHOOSE x \in S : \A y \in S \ {x} : PairLess(x, y)
         IN <<m>> \o SortPairs(S \ {m})

\* Faulty variant: the queue built from the direct dependencies only.
InstalledOfOwnDeps(package) ==
    SortPairs({<<d.package, d.installed>> : d \in Range(package.own_deps)})

\* Line 139: sorted({(d.package, d.installed) for d in package.all_deps}).
Installed(package) ==
    SortPairs({<<d.package, d.installed>> : d \in Range(package.all_deps)})

\* The descriptor `setup.py bdist_rpm --spec-only` generates for a package.
GeneratedSpec(package) ==
    << <<"%define name", " ", package.package, "\n">>,
       <<"Summary: x", "\n">>,
       <<"Source0:", " %{name}-%{unmangled_version}.tar.gz", "\n">>,
       <<"%description", "\n">>,
       <<"%setup", " -n %{name}-%{unmangled_version}", "\n">> >>

\* The package the stage at hand works on: the root package or the dependent.
Current(r) == IF r.unit = "root" THEN r.package ELSE r.dependent

SetCurrent(r, pkg) ==
    IF r.unit = "root" THEN [r EXCEPT !.package = pkg]
    ELSE [r EXCEPT !.dependent = pkg]

\* The log of the stages started: which unit, which stage, for which package
\* as packetize named it (the root as asked, a dependent by its queue item).
Started(r, stage) ==
    [r EXCEPT !.started =
        Append(r.started,
               [unit |-> r.unit, stage |-> stage,
                package |-> IF r.unit = "root" THEN r.asked
                            ELSE r.installed[r.taken]])]

\* run.error while no external call has raised.
NoError == [unit |-> "none", stage |-> "none"]

\* Faulty variant: the failure of a dependent caught, the loop going on.
FailedSkipsDependent(r, stage) ==
    [r EXCEPT !.error = [unit |-> r.unit, stage |-> stage],
              !.pc = IF r.unit = "dep" THEN "for" ELSE "failed"]

\* An external call raises: packetize catches nothing (lines 120-154), and
\* check_output passes the error of subprocess.check_output on (309-313).
Failed(r, stage) ==
    [r EXCEPT !.error = [unit |-> r.unit, stage |-> stage], !.pc = "failed"]

\* Line 125 and 231-237: pip install of the package expression.
InstallPackageToVenv ==
    /\ run.pc = "install"
    /\ \E ok \in BOOLEAN :
         run' = IF ok THEN [Started(run, "install") EXCEPT !.pc = "meta"]
                ELSE Failed(Started(run, "install"), "install")
    /\ UNCHANGED <<req, tree, patch>>

\* Lines 128, 148 and 239-256: pip show, pipdeptree and _parse_deps_tree, whose
\* walk does not end on a report with a reachable cycle.
CollectPackageMetadata ==
    /\ run.pc = "meta"
    /\ \E ok \in BOOLEAN :
         LET r == Started(run, "meta")
             name == run.show[Current(run).package]
             parsed == ParseDepsTree(run.deps, name)
         IN run' =
              IF ~ok THEN Failed(r, "meta")
              ELSE IF CycleReachable(run.deps, name)
              THEN [r EXCEPT !.pc = "diverged"]
              ELSE [SetCurrent(r, [Current(r) EXCEPT
                                     !.package = name,
                                     !.version = InstalledOf(name),
                                     !.own_deps = parsed.own_deps,
                                     !.all_deps = parsed.all_deps])
                    EXCEPT !.pc = "fetch"]
    /\ UNCHANGED <<req, tree, patch>>

\* Lines 131, 151 and 258-282: pip show, the registry lookup, the download and
\* the unpacking.
DownloadPackageSources ==
    /\ run.pc = "fetch"
    /\ \E ok \in BOOLEAN :
         LET r == Started(run, "fetch")
             name == run.show[Current(run).package]
         IN run' =
              IF ~ok THEN Failed(r, "fetch")
              ELSE [SetCurrent(r, [Current(r) EXCEPT
                                     !.package = name,
                                     !.version = InstalledOf(name),
                                     !.archive = <<"/", "s", "/">> \o name,
                                     !.sources = <<"/", "t", "/">> \o name])
                    EXCEPT !.pc = "build"]
    /\ UNCHANGED <<req, tree, patch>>

\* The unit's pipeline is complete: line 138-139 after the root's, the next
\* round of the for loop after a dependent's.
AfterBuild(r) ==
    IF r.unit = "dep" THEN [r EXCEPT !.pc = "for"]
    ELSE IF r.recursive
    THEN [r EXCEPT !.installed = Installed(r.package), !.pc = "for"]
    ELSE [r EXCEPT !.pc = "done"]

\* Lines 134, 154 and 284-306: generate the descriptor, rewrite it (with one
\* metadata lookup per own dependency) and write it under the prefixed name.
BuildPackageSpec ==
    /\ run.pc = "build"
    /\ \E ok \in BOOLEAN :
         LET r == Started(run, "build")
             pkg == Current(run)
             lines == PatchSpecData(run.self, run.show, pkg, GeneratedSpec(pkg))
             spec == run.self.prefix \o pkg.package
         IN run' =
              IF ~ok THEN Failed(r, "build")
              ELSE IF \E d \in Range(pkg.own_deps) :
                         CycleReachable(run.deps, run.show[d.package])
              THEN [r EXCEPT !.pc = "diverged"]
              ELSE AfterBuild(
                     [r EXCEPT !.specs =
                        [f \in (DOMAIN r.specs) \cup {spec} |->
                            IF f = spec THEN lines ELSE r.specs[f]]])
    /\ UNCHANGED <<req, tree, patch>>

\* Lines 140-145: the for loop takes the next pair; a pair whose name matches
\* the exclude expression is passed over.
ForNextDependency ==
    /\ run.pc = "for"
    /\ run.taken < Len(run.installed)
    /\ LET item == run.installed[run.taken + 1]
           r == [run EXCEPT !.taken = run.taken + 1]
       IN run' = IF Excluded(run.exclude, item[1]) THEN r
                 ELSE [r EXCEPT !.unit = "dep",
                                !.dependent = NewPackage(item[1], item[2]),
                                !.pc = "meta"]
    /\ UNCHANGED <<req, tree, patch>>

\* The for loop has no pair left: packetize returns.
ForEnd ==
    /\ run.pc = "for"
    /\ run.taken = Len(run.installed)
    /\ run' = [run EXCEPT !.pc = "done"]
    /\ UNCHANGED <<req, tree, patch>>

(* ---------------------------------------------------------------------- *)
(* Specification SpecRun: packetize on bounded reports                     *)
(* ---------------------------------------------------------------------- *)

Excludes == {<<>>, <<"A">>}

InitRun ==
    /\ req = Idle /\ tree = Idle /\ patch = Idle
    /\ \E en \in EntryNameSeqs, recursive \in BOOLEAN, exclude \in Excludes,
          show \in {ShowAsAsked, ShowCanonical} :
       \E k \in 0..MaxListed : \E flat \in [1..k -> Names] : \E cut \in Cuts(Len(en)) :
          run = [self |-> [prefix |-> <<"p", "-">>, system_python |-> SystemPython],
                 deps |-> Report(en, flat, cut), show |-> show,
                 asked |-> <<Target, <<>>>>,
                 recursive |-> recursive, exclude |-> exclude,
                 package |-> NewPackage(Target, <<>>),
                 dependent |-> None, unit |-> "root",
                 installed |-> <<>>, taken |-> 0,
                 started |-> <<>>, specs |-> <<>>, error |-> NoError,
                 pc |-> "install"]

NextRun ==
    \/ InstallPackageToVenv
    \/ CollectPackageMetadata
    \/ DownloadPackageSources
    \/ BuildPackageSpec
    \/ ForNextDependency
    \/ ForEnd

SpecRun == InitRun /\ [][NextRun]_vars

(* ---------------------------------------------------------------------- *)
(* Claims about Dependency._requires (SpecReq)                             *)
(* ---------------------------------------------------------------------- *)

Cat(pair) == pair[1] \o pair[2]

MapCat(pairs) == [i \in DOMAIN pairs |-> Cat(pairs[i])]

RECURSIVE Join(_)
Join(parts) ==
    IF Len(parts) = 1 THEN parts[1]
    ELSE parts[1] \o <<",">> \o Join(Tail(parts))

CommaCount(s) == Cardinality({i \in DOMAIN s : s[i] = ","})

\* A comma part whose leading run of operator characters is exactly '!='.
IsConflictPart(part) ==
    /\ Len(part) >= 2
    /\ part[1] = "!" /\ part[2] = "="
    /\ (Len(part) >= 3 => part[3] \notin OpChars)

IsRequirePart(part) == ~IsConflictPart(part)

\* C3: _requires splits the string on commas; each part, in order, goes to
\* conflicts when its operator is '!=' and to requires otherwise; the order of
\* the parts is kept inside each bucket, the two buckets together hold as many
\* pairs as there are comma parts, operator \o version of a pair is the part,
\* and the empty string gives ((), ()).
C3_RequiresSplit ==
    req.pc = "done" =>
        LET s == req.requirement
            requires == req.result[1]
            conflicts == req.result[2]
            parts == Split(s)
        IN IF s = <<>> THEN requires = <<>> /\ conflicts = <<>>
           ELSE /\ Join(parts) = s
                /\ \A k \in DOMAIN parts : CommaCount(parts[k]) = 0
                /\ Len(requires) + Len(conflicts) = CommaCount(s) + 1
                /\ \A k \in DOMAIN requires : requires[k][1] # <<"!", "=">>
                /\ \A k \in DOMAIN conflicts : conflicts[k][1] = <<"!", "=">>
                /\ MapCat(requires) = SelectSeq(parts, IsRequirePart)
                /\ MapCat(conflicts) = SelectSeq(parts, IsConflictPart)

\* The string '<,!=,1' has been parsed: two requires around one conflict.
C3_Witness ==
    /\ req.pc = "done"
    /\ req.requirement = <<"<", ",", "!", "=", ",", "1">>
    /\ req.result = << << <<<<"<">>, <<>>>>, <<<<>>, <<"1">>>> >>,
                       << <<<<"!", "=">>, <<>>>> >> >>

ValidOps ==
    {<<>>, <<"<">>, <<">">>, <<"<", "=">>, <<">", "=">>, <<"=", "=">>, <<"!", "=">>}

\* C4: the operator of every pair _requires returns is one of
\* '<', '>', '<=', '>=', '==', '!=' or the empty string.
C4_OperatorInSet ==
    req.pc = "done" =>
        \A b \in 1..2 : \A k \in DOMAIN req.result[b] :
            req.result[b][k][1] \in ValidOps

(* ---------------------------------------------------------------------- *)
(* Claims about _parse_deps_tree (SpecTree, SpecTreeFair)                  *)
(* ---------------------------------------------------------------------- *)

\* C1: when _parse_deps_tree has ended, every record of package.own_deps is
\* in package.all_deps.
C1_OwnSubsetAll ==
    tree.pc = "done" => Range(tree.own_deps) \subseteq Range(tree.all_deps)

\* The code's walk has ended with own dependencies and further ones below them.
C1_Witness ==
    /\ tree.pc = "done"
    /\ tree.order = "lifo"
    /\ tree.own_deps # <<>>
    /\ Len(tree.all_deps) > Len(tree.own_deps)

\* The raw dependency entries listed under a report entry whose name is in N.
RawListed(deps, N) ==
    UNION {Range(deps[i].dependencies)
           : i \in {k \in DOMAIN deps : deps[k].package.package_name \in N}}

\* The raw entries reachable from the target: listed under the target, or
\* listed under the name of a reachable entry.
RECURSIVE ReachableRawFrom(_, _)
ReachableRawFrom(deps, R) ==
    LET more == R \cup RawListed(deps, {r.package_name : r \in R})
    IN IF more = R THEN R ELSE ReachableRawFrom(deps, more)

ReachableRaw(deps, name) == ReachableRawFrom(deps, RawListed(deps, {name}))

StrictlySorted(ds) ==
    \A k \in 1..(Len(ds) - 1) : DepLess(ds[k], ds[k + 1])

\* C2: on a report without a reachable cycle, whatever the order of removal,
\* all_deps is exactly the parsed reachable raw entries, sorted and without
\* duplicates; a target no entry names gives empty own_deps and all_deps.
C2_AllIsReachable ==
    tree.pc = "done" =>
        /\ Range(tree.all_deps)
             = {Parse(r) : r \in ReachableRaw(tree.deps, tree.package)}
        /\ StrictlySorted(tree.all_deps)
        /\ (tree.package \notin EntryNamesOf(tree.deps)
              => tree.own_deps = <<>> /\ tree.all_deps = <<>>)

\* A walk in another order than the code's has ended, having met some entry
\* more than once and at least three different records.
C2_Witness ==
    /\ tree.pc = "done"
    /\ tree.order = "any"
    /\ Len(tree.all_deps) >= 3
    /\ Len(tree.all_raw) > Len(tree.all_deps)
    /\ \E k \in 1..(Len(tree.all_raw) - 1) :
           tree.all_raw[k] # tree.own_raw[Len(tree.own_raw)]

\* C9: the walk ends exactly when no cycle is reachable from the target's
\* direct dependencies: without one the function reaches its end, with one the
\* queue is never empty and own_deps and all_deps are never assigned.
C9_TerminatesIffAcyclic ==
    /\ [](~CycleReachable(tree.deps, tree.package) => <>(tree.pc = "done"))
    /\ [](CycleReachable(tree.deps, tree.package) /\ tree.pc = "walk"
            => tree.queue # <<>>)
    /\ [](CycleReachable(tree.deps, tree.package)
            => tree.pc # "done" /\ tree.own_deps = None /\ tree.all_deps = None)

\* The walk on a report with a reachable cycle has run several rounds.
C9_Witness ==
    /\ CycleReachable(tree.deps, tree.package)
    /\ tree.pc = "walk"
    /\ Len(tree.all_raw) >= 4
    /\ tree.queue # <<>>

(* ---------------------------------------------------------------------- *)
(* Claims about _patch_spec_data (SpecPatch)                               *)
(* ---------------------------------------------------------------------- *)

Triggers == <<"%define name", "%description", "%setup", "Source0:">>

\* The first trigger, in the order of the rules, that the line contains; 0 if none.
FirstRule(line) ==
    IF \E r \in 1..4 : Contains(line, Triggers[r])
    THEN CHOOSE r \in 1..4 :
            /\ Contains(line, Triggers[r])
            /\ \A q \in 1..(r - 1) : ~Contains(line, Triggers[q])
    ELSE 0

\* The number of declarations the claim gives one dependency.
DeclCount(d) ==
    IF Len(d.requires) + Len(d.conflicts) = 0 THEN 1
    ELSE Len(d.requires) + Len(d.conflicts)

RECURSIVE SumDeclCount(_)
SumDeclCount(ds) ==
    IF ds = <<>> THEN 0 ELSE DeclCount(Head(ds)) + SumDeclCount(Tail(ds))

\* The number of output lines the claim gives input line k.
BlockLen(k) ==
    IF FirstRule(patch.lines[k]) = 2
    THEN SumDeclCount(patch.package.own_deps) + 1
    ELSE 1

RECURSIVE BlockStart(_)
\* The number of output lines before the block of input line k.
BlockStart(k) == IF k = 1 THEN 2 ELSE BlockStart(k - 1) + BlockLen(k - 1)

\* C5: at a description line, each Dependency of own_deps, in own_deps order
\* and before the marker line, gives 'Requires: <full>' alone when it has no
\* requires and no conflicts, otherwise one 'Requires: <full> <op> <version>'
\* per requires pair and then one 'Conflicts: <full> == <version>' per
\* conflicts pair; <full> is the prefix and the name the lookup reports.
C5_DependencyDeclarations ==
    patch.pc = "done" =>
        \A k \in DOMAIN patch.lines :
            FirstRule(patch.lines[k]) = 2 =>
                \A j \in DOMAIN patch.package.own_deps :
                    LET d == patch.package.own_deps[j]
                        full == patch.self.prefix \o patch.show[d.package]
                        at == BlockStart(k)
                              + SumDeclCount(SubSeq(patch.package.own_deps, 1, j - 1))
                        nr == Len(d.requires)
                        nc == Len(d.conflicts)
                    IN IF nr + nc = 0
                       THEN patch.result[at + 1] = <<"Requires: ", full, "\n">>
                       ELSE /\ \A i \in 1..nr :
                                 patch.result[at + i] =
                                     <<"Requires: ", full, " ", d.requires[i][1],
                                       " ", d.requires[i][2], "\n">>
                            /\ \A i \in 1..nc :
                                 patch.result[at + nr + i] =
                                     <<"Conflicts: ", full, " == ",
                                       d.conflicts[i][2], "\n">>

\* A descriptor with a description line has been rewritten for a package with
\* an unconstrained dependency and one with requires and a conflict, whose
\* looked-up name is not the recorded one.
C5_Witness ==
    /\ patch.pc = "done"
    /\ \E k \in DOMAIN patch.lines : FirstRule(patch.lines[k]) = 2
    /\ \E j \in DOMAIN patch.package.own_deps :
          LET d == patch.package.own_deps[j]
          IN /\ d.requires # <<>> /\ d.conflicts # <<>>
             /\ patch.show[d.package] # d.package
    /\ \E j \in DOMAIN patch.package.own_deps :
          LET d == patch.package.own_deps[j]
          IN d.requires = <<>> /\ d.conflicts = <<>>
    /\ patch.self.prefix # <<>>

\* C6: the output is the two override directives, then one block per input
\* line in input order: a line without trigger is copied, a line with several
\* triggers follows the first rule only, the name, setup and source rules give
\* one line each ('Source0: ' and the base name of package.archive), the
\* description block ends with the marker line; with empty own_deps the output
\* has len(lines) + 2 lines.
C6_OneBlockPerLine ==
    patch.pc = "done" =>
        LET n == Len(patch.lines) IN
        /\ patch.result[1] = <<"%define __python ", patch.self.system_python, "\n">>
        /\ patch.result[2] = <<"%define original_name ", patch.package.package, "\n">>
        /\ Len(patch.result) = (IF n = 0 THEN 2 ELSE BlockStart(n) + BlockLen(n))
        /\ (patch.package.own_deps = <<>> => Len(patch.result) = n + 2)
        /\ \A k \in 1..n :
             LET line == patch.lines[k]
                 last == patch.result[BlockStart(k) + BlockLen(k)]
                 rule == FirstRule(line)
             IN CASE rule = 0 -> last = line
                  [] rule = 1 -> last = <<"%define name ",
                                         patch.self.prefix \o patch.package.package, "\n">>
                  [] rule = 2 -> last = line
                  [] rule = 3 -> last[1] = "%setup -n %{original_name}-%{unmangled_version}"
                  [] rule = 4 ->
                       /\ last[1] = "Source0: " /\ last[3] = "\n"
                       /\ ~Contains(last[2], "/")
                       /\ \E m \in 0..Len(patch.package.archive) :
                            /\ SubSeq(patch.package.archive, m + 1,
                                      Len(patch.package.archive)) = last[2]
                            /\ (m > 0 => patch.package.archive[m] = "/")

\* A descriptor of three lines has been rewritten for a package without own
\* dependencies: a source line, a line with two triggers and a plain line.
C6_Witness ==
    /\ patch.pc = "done"
    /\ patch.package.own_deps = <<>>
    /\ Len(patch.lines) = 3
    /\ Len(patch.result) = 5
    /\ FirstRule(patch.lines[1]) = 4
    /\ Contains(patch.lines[2], "%description")
    /\ FirstRule(patch.lines[2]) = 1
    /\ FirstRule(patch.lines[3]) = 0
    /\ Contains(patch.package.archive, "/")

(* ---------------------------------------------------------------------- *)
(* Claims about packetize (SpecRun)                                        *)
(* ---------------------------------------------------------------------- *)

IsDepEvent(e) == e.unit = "dep"

\* The stages started for dependents, in the order they were started.
DepEvents == SelectSeq(run.started, IsDepEvent)

\* The name matches the non-empty exclude expression, letter case ignored.
MatchesExclude(name) ==
    /\ run.exclude # <<>>
    /\ \E k \in 0..(Len(name) - Len(run.exclude)) :
          \A j \in 1..Len(run.exclude) :
              Lower(name[k + j]) = Lower(run.exclude[j])

\* C7: in a recursive run without failure, the dependency pipelines are, one
\* at a time and in ascending order, metadata query, source fetch and
\* descriptor build of each distinct (name, installed version) pair of the
\* root's all_deps whose name does not match the exclude expression; a pair
\* whose name matches is never processed but stays in all_deps; without
\* recursive no dependency pipeline is started.
C7_RecursivePipelines ==
    /\ \A k \in DOMAIN DepEvents : ~MatchesExclude(DepEvents[k].package[1])
    /\ ~run.recursive => DepEvents = <<>>
    /\ run.pc = "done" /\ run.recursive =>
         LET ev == DepEvents
             n == Len(ev) \div 3
         IN /\ Len(ev) = 3 * n
            /\ \A i \in 1..n :
                 /\ ev[3 * i - 2].stage = "meta"
                 /\ ev[3 * i - 1].stage = "fetch"
                 /\ ev[3 * i].stage = "build"
                 /\ ev[3 * i - 2].package = ev[3 * i].package
                 /\ ev[3 * i - 1].package = ev[3 * i].package
            /\ \A i \in 1..(n - 1) : PairLess(ev[3 * i].package, ev[3 * i + 3].package)
            /\ {ev[3 * i].package : i \in 1..n}
                 = {<<d.package, d.installed>> :
                      d \in {x \in Range(run.package.all_deps) :
                               ~MatchesExclude(x.package)}}
            /\ Range(run.package.all_deps)
                 = {Parse(r) : r \in ReachableRaw(run.deps, run.package.package)}

\* A recursive run has ended in which one dependency was passed over for its
\* name, in another letter case than the exclude expression, and another built.
C7_Witness ==
    /\ run.pc = "done"
    /\ run.recursive
    /\ run.exclude = <<"A">>
    /\ \E d \in Range(run.package.all_deps) : d.package = <<"a">>
    /\ Len(DepEvents) = 3
    /\ DepEvents[3].package = <<<<"b">>, <<"2">>>>

\* C8: a failing external call is not caught: from then on no stage is
\* started, of the package at hand or of a later dependency, and no
\* descriptor is written or changed.
C8_FailFast ==
    /\ [](run.error # NoError => run.pc = "failed")
    /\ [][/\ run'.error # NoError => run'.specs = run.specs
          /\ run.error # NoError => run'.started = run.started]_vars

\* The build of a dependent has failed after a descriptor was written, with
\* dependencies left in the queue.
C8_Witness ==
    /\ run.pc = "failed"
    /\ run.error = [unit |-> "dep", stage |-> "build"]
    /\ DOMAIN run.specs # {}
    /\ run.taken < Len(run.installed)

\* A dependent named `name` has had its descriptor build started.
HasPipeline(name) ==
    \E k \in DOMAIN DepEvents :
        DepEvents[k].stage = "build" /\ DepEvents[k].package[1] = name

IsDeclaration(line) == line[1] \in {"Requires: ", "Conflicts: "}

\* C10: when the lookups report the names as recorded (on one acyclic report),
\* at the end of a recursive run the own_deps resolved for the package of any
\* record of the root's all_deps are in the root's all_deps, and every Requires
\* or Conflicts line of every descriptor written names a package that had its
\* own pipeline or matches the exclude expression.
C10_DependencyClosed ==
    run.pc = "done" /\ run.recursive /\ run.show = ShowAsAsked =>
        /\ \A d \in Range(run.package.all_deps) :
             Range(ParseDepsTree(run.deps, d.package).own_deps)
                 \subseteq Range(run.package.all_deps)
        /\ \A f \in DOMAIN run.specs : \A k \in DOMAIN run.specs[f] :
             IsDeclaration(run.specs[f][k]) =>
                \E name \in PackageNames :
                    /\ run.specs[f][k][2] = run.self.prefix \o name
                    /\ HasPipeline(name) \/ MatchesExclude(name)

\* A recursive run has ended with three descriptors, that of a dependent
\* declaring a dependency of its own.
C10_Witness ==
    /\ run.pc = "done" /\ run.recursive /\ run.show = ShowAsAsked
    /\ run.exclude = <<>>
    /\ Cardinality(DOMAIN run.specs) = 3
    /\ \E k \in DOMAIN run.specs[<<"p", "-", "a">>] :
          /\ IsDeclaration(run.specs[<<"p", "-", "a">>][k])
          /\ run.specs[<<"p", "-", "a">>][k][2] = <<"p", "-", "b">>

====
